---- MODULE Spec2Model ----
(***************************************************************************)
(* Road-drawing delivery game (barbaracohenzita/newgame).                  *)
(*                                                                         *)
(* The repository holds two revisions of the same script: src/game.js,     *)
(* where updateCar does everything inline, and src/unnamed/part_000, where *)
(* the motion lives in class Car and updateCar resets the segment index    *)
(* when it is >= the new path's length.  The variable impl says which      *)
(* revision is running; everything else is shared.                         *)
(*                                                                         *)
(* Numbers.  Mouse and anchor coordinates are integers.  car.progress,     *)
(* car.x and car.y are IEEE-754 binary64 values: they are kept here as     *)
(* exact fixed-point integers in units of 2^-60 (four limbs of 20 bits,    *)
(* least significant first, because TLC's integers are 32 bits wide), and  *)
(* every arithmetic operation of the code is the exact operation followed  *)
(* by rounding to 53 significant bits, ties to even.  This is exact for    *)
(* every double that is a multiple of 2^-60 and below 2^20, which covers   *)
(* all values the geometry below can produce.  Math.hypot is modelled on   *)
(* integer arguments whose sum of squares is a perfect square (where it is *)
(* exact); the point sets are chosen so that every distance between two    *)
(* graph nodes is of that kind.                                            *)
(***************************************************************************)
EXTENDS Integers, Sequences, FiniteSets, TLC

\* ------------------------------------------------------------------------
\* binary64 arithmetic on fixed-point big integers
\* ------------------------------------------------------------------------

\* one limb holds 20 bits
Limb == 2 ^ 20

\* Carry (or borrow) propagation over four limbs; % is the non-negative
\* remainder and \div rounds down, so negative limbs borrow.
BigNorm(s) ==
  LET c1 == s[1] \div Limb
      t2 == s[2] + c1
      c2 == t2 \div Limb
      t3 == s[3] + c2
      c3 == t3 \div Limb
      t4 == s[4] + c3
  IN  << s[1] % Limb, t2 % Limb, t3 % Limb, t4 >>

BigAdd(a, b) == BigNorm(<< a[1] + b[1], a[2] + b[2], a[3] + b[3], a[4] + b[4] >>)

\* a - b for a >= b
BigSub(a, b) == BigNorm(<< a[1] - b[1], a[2] - b[2], a[3] - b[3], a[4] - b[4] >>)

\* a * k for 0 <= k <= 2^10
BigMulSmall(a, k) == BigNorm(<< a[1] * k, a[2] * k, a[3] * k, a[4] * k >>)

\* floor(a / 2)
BigHalf(a) ==
  << (a[1] \div 2) + (a[2] % 2) * (Limb \div 2),
     (a[2] \div 2) + (a[3] % 2) * (Limb \div 2),
     (a[3] \div 2) + (a[4] % 2) * (Limb \div 2),
     a[4] \div 2 >>

\* floor(a / k) and a mod k for 0 < k <= 2^10
BigDivSmall(a, k) ==
  LET q4 == a[4] \div k
      r4 == a[4] % k
      n3 == r4 * Limb + a[3]
      q3 == n3 \div k
      r3 == n3 % k
      n2 == r3 * Limb + a[2]
      q2 == n2 \div k
      r2 == n2 % k
      n1 == r2 * Limb + a[1]
  IN  [quot |-> << n1 \div k, q2, q3, q4 >>, rem |-> n1 % k]

BigLess(a, b) ==
  \/ a[4] < b[4]
  \/ a[4] = b[4] /\ a[3] < b[3]
  \/ a[4] = b[4] /\ a[3] = b[3] /\ a[2] < b[2]
  \/ a[4] = b[4] /\ a[3] = b[3] /\ a[2] = b[2] /\ a[1] < b[1]

\* number of bits of n: 0 for 0, else 1 + floor(log2 n)
RECURSIVE BitLen(_)
BitLen(n) == IF n = 0 THEN 0 ELSE 1 + BitLen(n \div 2)

BigBitLen(a) ==
  IF a[4] # 0 THEN 60 + BitLen(a[4])
  ELSE IF a[3] # 0 THEN 40 + BitLen(a[3])
  ELSE IF a[2] # 0 THEN 20 + BitLen(a[2])
  ELSE BitLen(a[1])

Min(m, n) == IF m < n THEN m ELSE n
Max(m, n) == IF m > n THEN m ELSE n

\* floor(a / 2^d) for 0 <= d <= 30, and whether a non-zero bit was dropped
BigShiftRight(a, d) ==
  LET r1 == BigDivSmall(a, 2 ^ Min(d, 10))
      r2 == BigDivSmall(r1.quot, 2 ^ Min(Max(d - 10, 0), 10))
      r3 == BigDivSmall(r2.quot, 2 ^ Max(d - 20, 0))
  IN  [quot |-> r3.quot, sticky |-> r1.rem # 0 \/ r2.rem # 0 \/ r3.rem # 0]

\* a * 2^d for 0 <= d <= 30
BigShiftLeft(a, d) ==
  BigMulSmall(BigMulSmall(BigMulSmall(a, 2 ^ Min(d, 10)),
                          2 ^ Min(Max(d - 10, 0), 10)),
              2 ^ Max(d - 20, 0))

\* a, with sticky telling that lower non-zero bits were already dropped,
\* rounded to 53 significant bits, ties to even.  An integer of at most 53
\* bits is a double as it stands.
Round53(a, sticky) ==
  LET d == BigBitLen(a) - 53
  IN  IF d <= 0 THEN a
      ELSE LET s  == BigShiftRight(a, d - 1)
               h  == BigHalf(s.quot)
               up == s.quot[1] % 2 = 1 /\ (sticky \/ s.sticky \/ h[1] % 2 = 1)
               r  == IF up THEN BigAdd(h, << 1, 0, 0, 0 >>) ELSE h
           IN  BigShiftLeft(r, d)

\* the double n, for an integer 0 <= n < 2^20
FromInt(n) == << 0, 0, 0, n >>

\* a + b in binary64
FAdd(a, b) == Round53(BigAdd(a, b), FALSE)

\* a - b in binary64, for a >= b >= 0
FSub(a, b) == Round53(BigSub(a, b), FALSE)

\* k * p in binary64 for an integer 0 <= k < 2^10
FMulInt(k, p) == Round53(BigMulSmall(p, k), FALSE)

\* n / d in binary64 for integers 0 < d < 2^10, n >= 0, n / d >= 2^-7 or n = 0
FDiv(n, d) ==
  LET qr == BigDivSmall(FromInt(n), d)
  IN  Round53(qr.quot, qr.rem # 0)

\* a > 1
FGreaterOne(a) == BigLess(FromInt(1), a)

\* a >= 1
FGeOne(a) == ~BigLess(a, FromInt(1))

\* ------------------------------------------------------------------------
\* constants of the script
\* ------------------------------------------------------------------------

SNAP_THRESHOLD == 10
\* mouseup keeps a road only if Math.hypot(...) > 5
MinRoadLength == 5
\* car.speed
speed == 2
\* start.x = start.y = 80, and dest lies 80 inside the canvas' far corner
AnchorInset == 80

start == [x |-> AnchorInset, y |-> AnchorInset]

\* cameFrom[startNode.id] = null; node ids are >= 0
NullId == -1

\* car.path = null.  findPath never returns an empty array, so the empty
\* sequence is free to stand for null.
NoPath == << >>

\* ------------------------------------------------------------------------
\* geometry
\* ------------------------------------------------------------------------

SumSq(dx, dy) == dx * dx + dy * dy

Abs(n) == IF n < 0 THEN -n ELSE n

\* Math.hypot(dx, dy) on integers whose sum of squares is a perfect square
\* (no other value is defined: TLC stops if one is asked for)
Hypot(dx, dy) == CHOOSE r \in 0 .. (Abs(dx) + Abs(dy)) : r * r = SumSq(dx, dy)

\* Math.hypot(dx, dy) < t and Math.hypot(dx, dy) > t for integers dx, dy, t
HypotLess(dx, dy, t) == SumSq(dx, dy) < t * t
HypotGreater(dx, dy, t) == SumSq(dx, dy) > t * t

\* ------------------------------------------------------------------------
\* graph building
\* ------------------------------------------------------------------------

\* The first node of the list within the snap threshold of (x, y), or a new
\* node appended to the list.  game.js also gives a new node its (empty)
\* adjacency entry; part_000 leaves that to addEdge.
\* a point farther than the threshold taken for near (the comparison turned)
NearTurned(node, x, y) == HypotGreater(node.x - x, node.y - y, SNAP_THRESHOLD)

\* a point at the node's own position not taken for near
NearApart(node, x, y) ==
  /\ HypotLess(node.x - x, node.y - y, SNAP_THRESHOLD)
  /\ SumSq(node.x - x, node.y - y) > 0

\* Math.hypot(node.x - x, node.y - y) < SNAP_THRESHOLD
Near(node, x, y) == HypotLess(node.x - x, node.y - y, SNAP_THRESHOLD)

\* the new node pushed onto the list twice (by the helper and by its caller)
getOrCreateNodePushTwice(x, y, g, rev) ==
  LET hits == {i \in 1 .. Len(g.nodes) : Near(g.nodes[i], x, y)}
      first == CHOOSE i \in hits : \A j \in hits : i <= j
      newNode == [id |-> Len(g.nodes), x |-> x, y |-> y]
  IN  IF hits # {}
      THEN [node |-> g.nodes[first], g |-> g]
      ELSE [node |-> newNode,
            g |-> [nodes |-> g.nodes \o << newNode, newNode >>,
                   adj |-> IF rev = "game.js"
                           THEN g.adj @@ (newNode.id :> << >>)
                           ELSE g.adj]]

\* a position near a node given a node of its own, placed on that node
getOrCreateNodeSnapCopy(x, y, g, rev) ==
  LET hits == {i \in 1 .. Len(g.nodes) : Near(g.nodes[i], x, y)}
      first == CHOOSE i \in hits : \A j \in hits : i <= j
      at == IF hits # {} THEN g.nodes[first] ELSE [x |-> x, y |-> y]
      newNode == [id |-> Len(g.nodes), x |-> at.x, y |-> at.y]
  IN  [node |-> newNode,
       g |-> [nodes |-> Append(g.nodes, newNode),
              adj |-> IF rev = "game.js"
                      THEN g.adj @@ (newNode.id :> << >>)
                      ELSE g.adj]]

getOrCreateNode(x, y, g, rev) ==
  LET hits == {i \in 1 .. Len(g.nodes) : Near(g.nodes[i], x, y)}
      first == CHOOSE i \in hits : \A j \in hits : i <= j
      newNode == [id |-> Len(g.nodes), x |-> x, y |-> y]
  IN  IF hits # {}
      THEN [node |-> g.nodes[first], g |-> g]
      ELSE [node |-> newNode,
            g |-> [nodes |-> Append(g.nodes, newNode),
                   adj |-> IF rev = "game.js"
                           THEN g.adj @@ (newNode.id :> << >>)
                           ELSE g.adj]]

\* the edge entered in n1's list only
addEdgeOneWay(adj, n1, n2) ==
  LET d  == Hypot(n1.x - n2.x, n1.y - n2.y)
      a1 == IF n1.id \in DOMAIN adj THEN adj ELSE adj @@ (n1.id :> << >>)
      a2 == IF n2.id \in DOMAIN a1 THEN a1 ELSE a1 @@ (n2.id :> << >>)
  IN  [a2 EXCEPT ![n1.id] = Append(@, [id |-> n2.id, dist |-> d])]

\* Two directed entries, n1's first; part_000 creates a missing list here.
addEdge(adj, n1, n2) ==
  LET d  == Hypot(n1.x - n2.x, n1.y - n2.y)
      a1 == IF n1.id \in DOMAIN adj THEN adj ELSE adj @@ (n1.id :> << >>)
      a2 == IF n2.id \in DOMAIN a1 THEN a1 ELSE a1 @@ (n2.id :> << >>)
      a3 == [a2 EXCEPT ![n1.id] = Append(@, [id |-> n2.id, dist |-> d])]
  IN  [a3 EXCEPT ![n2.id] = Append(@, [id |-> n1.id, dist |-> d])]

\* only the two newest roads entered into the graph
RECURSIVE addRoadsLastTwo(_, _, _, _)
addRoadsLastTwo(g, rds, i, rev) ==
  IF i > Len(rds) THEN g
  ELSE IF i < Len(rds) - 1 THEN addRoadsLastTwo(g, rds, i + 1, rev)
  ELSE LET ra == getOrCreateNode(rds[i].x1, rds[i].y1, g, rev)
           rb == getOrCreateNode(rds[i].x2, rds[i].y2, ra.g, rev)
       IN  addRoadsLastTwo([nodes |-> rb.g.nodes,
                            adj |-> addEdge(rb.g.adj, ra.node, rb.node)],
                           rds, i + 1, rev)

\* roads.forEach: both endpoints through getOrCreateNode, then the edge
RECURSIVE addRoads(_, _, _, _)
addRoads(g, rds, i, rev) ==
  IF i > Len(rds) THEN g
  ELSE LET ra == getOrCreateNode(rds[i].x1, rds[i].y1, g, rev)
           rb == getOrCreateNode(rds[i].x2, rds[i].y2, ra.g, rev)
       IN  addRoads([nodes |-> rb.g.nodes,
                     adj |-> addEdge(rb.g.adj, ra.node, rb.node)],
                    rds, i + 1, rev)

buildGraph(rds, dst, rev) ==
  LET rs == getOrCreateNode(start.x, start.y, [nodes |-> << >>, adj |-> << >>], rev)
      rd == getOrCreateNode(dst.x, dst.y, rs.g, rev)
      g  == addRoads(rd.g, rds, 1, rev)
  IN  [nodes |-> g.nodes, adj |-> g.adj, startNode |-> rs.node, destNode |-> rd.node]

\* ------------------------------------------------------------------------
\* path finding
\* ------------------------------------------------------------------------

\* adj[current] (game.js) or adj[current] || [] (part_000)
neighbors(graph, current) ==
  IF current \in DOMAIN graph.adj THEN graph.adj[current] ELSE << >>

\* the neighbor loop run from the last entry of the list to the first
RECURSIVE visitNeighborsReversed(_, _, _, _, _)
visitNeighborsReversed(nbrs, i, current, queue, cameFrom) ==
  IF i > Len(nbrs) THEN [queue |-> queue, cameFrom |-> cameFrom]
  ELSE LET nb == nbrs[Len(nbrs) + 1 - i]
       IN  IF nb.id \in DOMAIN cameFrom
           THEN visitNeighborsReversed(nbrs, i + 1, current, queue, cameFrom)
           ELSE visitNeighborsReversed(nbrs, i + 1, current,
                                       Append(queue, nb.id),
                                       cameFrom @@ (nb.id :> current))

\* for (neighbor of adj[current]) if (!(neighbor.id in cameFrom)) ...
RECURSIVE visitNeighbors(_, _, _, _, _)
visitNeighbors(nbrs, i, current, queue, cameFrom) ==
  IF i > Len(nbrs) THEN [queue |-> queue, cameFrom |-> cameFrom]
  ELSE IF nbrs[i].id \in DOMAIN cameFrom
       THEN visitNeighbors(nbrs, i + 1, current, queue, cameFrom)
       ELSE visitNeighbors(nbrs, i + 1, current,
                           Append(queue, nbrs[i].id),
                           cameFrom @@ (nbrs[i].id :> current))

\* nodes.find(n => n.id === id)
findNode(nodes, id) == nodes[CHOOSE i \in 1 .. Len(nodes) : nodes[i].id = id]

\* while (current !== null) { path.unshift(node); current = cameFrom[current] }
\* the walk back with path.push in place of path.unshift
RECURSIVE reconstructPush(_, _, _, _)
reconstructPush(nodes, cameFrom, current, path) ==
  IF current = NullId THEN path
  ELSE reconstructPush(nodes, cameFrom, cameFrom[current],
                       path \o << findNode(nodes, current) >>)

\* the walk back started from a path that already holds the destination
RECURSIVE reconstructDestTwice(_, _, _, _)
reconstructDestTwice(nodes, cameFrom, current, path) ==
  IF current = NullId THEN path
  ELSE reconstructDestTwice(nodes, cameFrom, cameFrom[current],
                            << findNode(nodes, current) >>
                              \o (IF path = << >> THEN << findNode(nodes, current) >>
                                  ELSE path))

RECURSIVE reconstruct(_, _, _, _)
reconstruct(nodes, cameFrom, current, path) ==
  IF current = NullId THEN path
  ELSE reconstruct(nodes, cameFrom, cameFrom[current],
                   << findNode(nodes, current) >> \o path)

\* the search answering the straight line from start to destination, not
\* null, when the queue runs empty
RECURSIVE bfsStraightLine(_, _, _)
bfsStraightLine(graph, queue, cameFrom) ==
  IF queue = << >> THEN << graph.startNode, graph.destNode >>
  ELSE LET current == Head(queue)
       IN  IF current = graph.destNode.id
           THEN reconstruct(graph.nodes, cameFrom, current, << >>)
           ELSE LET v == visitNeighbors(neighbors(graph, current), 1, current,
                                        Tail(queue), cameFrom)
                IN  bfsStraightLine(graph, v.queue, v.cameFrom)

\* the search with queue.pop() in place of queue.shift(): newest first
RECURSIVE bfsNewestFirst(_, _, _)
bfsNewestFirst(graph, queue, cameFrom) ==
  IF queue = << >> THEN NoPath
  ELSE LET current == queue[Len(queue)]
       IN  IF current = graph.destNode.id
           THEN reconstruct(graph.nodes, cameFrom, current, << >>)
           ELSE LET v == visitNeighbors(neighbors(graph, current), 1, current,
                                        SubSeq(queue, 1, Len(queue) - 1), cameFrom)
                IN  bfsNewestFirst(graph, v.queue, v.cameFrom)

RECURSIVE bfs(_, _, _)
bfs(graph, queue, cameFrom) ==
  IF queue = << >> THEN NoPath
  ELSE LET current == Head(queue)
       IN  IF current = graph.destNode.id
           THEN reconstruct(graph.nodes, cameFrom, current, << >>)
           ELSE LET v == visitNeighbors(neighbors(graph, current), 1, current,
                                        Tail(queue), cameFrom)
                IN  bfs(graph, v.queue, v.cameFrom)

findPath(graph) ==
  bfs(graph, << graph.startNode.id >>, (graph.startNode.id :> NullId))

\* ------------------------------------------------------------------------
\* bounds and inputs
\* ------------------------------------------------------------------------

\* roads.length is capped; score is capped (ticks stop at the cap)
MaxRoads == 3
MaxScore == 2

Revisions == {"game.js", "part_000"}

\* canvas.width x canvas.height: the page is not part of the sources, so the
\* size is an input.  The first puts dest at (92, 96), 20 from start; the
\* second at (83, 84), 5 from start (inside the snap threshold).
Canvases == { [width |-> 172, height |-> 176], [width |-> 163, height |-> 164] }

Pt(px, py) == [x |-> px, y |-> py]

\* where the pointer goes down, moves and comes up.  (80,80), (92,80) and
\* (92,96) are 12, 16 and 20 apart; (87,80) is 5 from (92,80), and 7 from
\* (80,80), inside the snap threshold: a road between them is a loop at the
\* start node.
DownPoints == { Pt(80, 80), Pt(92, 80) }
UpPoints == { Pt(87, 80), Pt(92, 80), Pt(92, 96) }
MovePoints == { Pt(92, 96) }

\* ------------------------------------------------------------------------
\* state
\* ------------------------------------------------------------------------

VARIABLES
  impl,       \* which revision of the script runs
  canvas,     \* [width, height] of the canvas element
  roads,      \* the road segments drawn so far
  car,        \* [x, y, path, segIndex, progress]; car.speed is the constant speed
  score,
  isDrawing,
  drawStart,
  mousePos,
  looping,    \* gameLoop has a frame requested (false once a tick has thrown)
  tripTicks   \* history: ticks that moved the car since it last stood reset

vars == << impl, canvas, roads, car, score, isDrawing, drawStart, mousePos,
           looping, tripTicks >>

dest == [x |-> canvas.width - AnchorInset, y |-> canvas.height - AnchorInset]

Init ==
  /\ impl \in Revisions
  /\ canvas \in Canvases
  /\ roads = << >>
  /\ car = [x |-> FromInt(start.x), y |-> FromInt(start.y), path |-> NoPath,
            segIndex |-> 0, progress |-> FromInt(0)]
  /\ score = 0
  /\ isDrawing = FALSE
  /\ drawStart = Pt(0, 0)
  /\ mousePos = Pt(0, 0)
  /\ looping = TRUE
  /\ tripTicks = 0

\* ------------------------------------------------------------------------
\* car movement
\* ------------------------------------------------------------------------

\* the reset leaving the segment index where it was
resetCarKeepsSegment(c) ==
  [c EXCEPT !.x = FromInt(start.x), !.y = FromInt(start.y),
            !.progress = FromInt(0)]

resetCar(c) ==
  [c EXCEPT !.x = FromInt(start.x), !.y = FromInt(start.y),
            !.segIndex = 0, !.progress = FromInt(0)]

\* curr + d * progress in binary64 (the product is rounded, then the sum)
Interpolate(curr, d, progress) ==
  IF d >= 0 THEN FAdd(FromInt(curr), FMulInt(d, progress))
  ELSE FSub(FromInt(curr), FMulInt(-d, progress))

\* path[segIndex + 1] is undefined, so reading its x throws a TypeError
ReadsPastEnd(c) == c.segIndex + 2 > Len(c.path)

\* Car.update (part_000) and the body of updateCar after car.path = path
\* (game.js): the car and score after it, and whether it threw.
CarUpdate(c, sc) ==
  IF c.path # NoPath /\ Len(c.path) > 1
  THEN IF ReadsPastEnd(c)
       THEN [car |-> c, score |-> sc, threw |-> TRUE]
       ELSE LET curr == c.path[c.segIndex + 1]
                next == c.path[c.segIndex + 2]
                dx == next.x - curr.x
                dy == next.y - curr.y
                segLength == Hypot(dx, dy)
                progress == FAdd(c.progress, FDiv(speed, segLength))
            IN  IF FGeOne(progress)
                THEN IF c.segIndex + 1 >= Len(c.path) - 1
                     THEN [car |-> resetCar([c EXCEPT !.segIndex = @ + 1,
                                                      !.progress = FromInt(0)]),
                           score |-> sc + 1, threw |-> FALSE]
                     ELSE [car |-> [c EXCEPT !.segIndex = @ + 1,
                                             !.progress = FromInt(0),
                                             !.x = Interpolate(curr.x, dx, FromInt(0)),
                                             !.y = Interpolate(curr.y, dy, FromInt(0))],
                           score |-> sc, threw |-> FALSE]
                ELSE [car |-> [c EXCEPT !.progress = progress,
                                        !.x = Interpolate(curr.x, dx, progress),
                                        !.y = Interpolate(curr.y, dy, progress)],
                      score |-> sc, threw |-> FALSE]
  ELSE [car |-> c, score |-> sc, threw |-> FALSE]

\* part_000 only: if the new path has more than one node and the stored
\* segment index is >= its length, start over at segment 0
SegmentGuard(c) ==
  IF c.path # NoPath /\ Len(c.path) > 1 /\ c.segIndex >= Len(c.path)
  THEN [c EXCEPT !.segIndex = 0, !.progress = FromInt(0)]
  ELSE c

\* the car as updateCar has it when it reads path[segIndex]: the fresh path
\* stored, and in part_000 the guard applied
CarAtRead(c, rds, dst, rev) ==
  LET c1 == [c EXCEPT !.path = findPath(buildGraph(rds, dst, rev))]
  IN  IF rev = "part_000" THEN SegmentGuard(c1) ELSE c1

updateCar(c, sc, rds, dst, rev) == CarUpdate(CarAtRead(c, rds, dst, rev), sc)

\* ------------------------------------------------------------------------
\* actions
\* ------------------------------------------------------------------------

\* gameLoop: updateCar(); drawScene(); requestAnimationFrame(gameLoop).
\* An exception in updateCar leaves the frame unrequested.
Tick ==
  /\ looping
  /\ score < MaxScore
  /\ \E r \in { updateCar(car, score, roads, dest, impl) } :
         /\ car' = r.car
         /\ score' = r.score
         /\ looping' = ~r.threw
         /\ tripTicks' = IF r.score # score THEN 0
                         ELSE IF ~r.threw /\ Len(r.car.path) > 1 THEN tripTicks + 1
                         ELSE tripTicks
  /\ UNCHANGED << impl, canvas, roads, isDrawing, drawStart, mousePos >>

MouseDown ==
  \E p \in DownPoints :
    /\ isDrawing' = TRUE
    /\ drawStart' = p
    /\ UNCHANGED << impl, canvas, roads, car, score, mousePos, looping, tripTicks >>

MouseMove ==
  \E p \in MovePoints :
    /\ isDrawing
    /\ mousePos' = p
    /\ UNCHANGED << impl, canvas, roads, car, score, isDrawing, drawStart, looping,
                    tripTicks >>

\* the road mouseup pushes for a gesture from drawStart to endPos
Road(from, to) == [x1 |-> from.x, y1 |-> from.y, x2 |-> to.x, y2 |-> to.y]

\* the length test with >= in place of >
IsSignificantOrEqual(from, to) ==
  SumSq(to.x - from.x, to.y - from.y) >= MinRoadLength * MinRoadLength

IsSignificant(from, to) == HypotGreater(to.x - from.x, to.y - from.y, MinRoadLength)

\* a pointer-up that also sends the car back to the origin when it adds a road
MouseUpRestartsCar ==
  \E endPos \in UpPoints :
    /\ isDrawing
    /\ IF IsSignificant(drawStart, endPos)
       THEN /\ Len(roads) < MaxRoads
            /\ roads' = Append(roads, Road(drawStart, endPos))
            /\ car' = resetCar(car)
       ELSE roads' = roads /\ car' = car
    /\ isDrawing' = FALSE
    /\ UNCHANGED << impl, canvas, score, drawStart, mousePos, looping, tripTicks >>

MouseUp ==
  \E endPos \in UpPoints :
    /\ isDrawing
    /\ IF IsSignificant(drawStart, endPos)
       THEN /\ Len(roads) < MaxRoads
            /\ roads' = Append(roads, Road(drawStart, endPos))
       ELSE roads' = roads
    /\ isDrawing' = FALSE
    /\ UNCHANGED << impl, canvas, car, score, drawStart, mousePos, looping, tripTicks >>

Next == Tick \/ MouseDown \/ MouseMove \/ MouseUp

Spec == Init /\ [][Next]_vars

\* A tick of a running loop whose car holds a path of two or more nodes: it
\* moves the car (one more tick on the trip), scores (the trip starts over)
\* or throws (the loop stops).  Of the steps of Next exactly those ticks
\* change tripTicks or looping.
TickOnPath ==
  /\ looping
  /\ score < MaxScore
  /\ Len(car.path) >= 2
  /\ \E t \in {0, tripTicks, tripTicks + 1}, l \in BOOLEAN :
       tripTicks' = t /\ looping' = l

\* gameLoop asks for the next animation frame at the end of every frame it
\* completes, and the browser grants it: a tick that can run does run.  What
\* is stated is the part of WF_vars(Tick) for a car that holds a path, where
\* Tick is enabled and each of its steps is a step of TickOnPath.
LiveSpec == Spec /\ WF_<< tripTicks, looping >>(TickOnPath)

\* ------------------------------------------------------------------------
\* buildGraph and findPath on their own: the road collection is drawn from
\* all lists of up to MaxGraphRoads roads over GraphRoads, and the one
\* action runs the first two statements of updateCar on it.
\* ------------------------------------------------------------------------

MaxGraphRoads == 5

\* (80,80), (92,80), (80,96), (92,96) are the corners of a 12 x 16 rectangle
\* (diagonal 20) and (86,88) is its centre, 10 from each corner; (83,84) and
\* (88,80) both snap to the start node and are more than 5 apart, so the
\* last road is a loop at the start node and the one before it doubles the
\* first.
GraphRoads ==
  { Road(Pt(80, 80), Pt(92, 80)), Road(Pt(92, 80), Pt(92, 96)),
    Road(Pt(80, 80), Pt(80, 96)), Road(Pt(80, 96), Pt(86, 88)),
    Road(Pt(86, 88), Pt(92, 96)), Road(Pt(83, 84), Pt(92, 80)),
    Road(Pt(83, 84), Pt(88, 80)) }

\* the lists of up to MaxGraphRoads different roads
RoadLists ==
  { rds \in UNION { [1 .. k -> GraphRoads] : k \in 0 .. MaxGraphRoads } :
      \A i, j \in 1 .. Len(rds) : rds[i] = rds[j] => i = j }

InitGraph ==
  /\ impl \in Revisions
  /\ canvas = [width |-> 172, height |-> 176]
  /\ roads \in RoadLists
  /\ car = [x |-> FromInt(start.x), y |-> FromInt(start.y), path |-> NoPath,
            segIndex |-> 0, progress |-> FromInt(0)]
  /\ score = 0
  /\ isDrawing = FALSE
  /\ drawStart = Pt(0, 0)
  /\ mousePos = Pt(0, 0)
  /\ looping = TRUE
  /\ tripTicks = 0

\* const graph = buildGraph(); const path = findPath(graph); car.path = path
FindRoute ==
  /\ car' = [car EXCEPT !.path = findPath(buildGraph(roads, dest, impl))]
  /\ UNCHANGED << impl, canvas, roads, score, isDrawing, drawStart, mousePos,
                  looping, tripTicks >>

NextGraph == FindRoute

GraphSpec == InitGraph /\ [][NextGraph]_vars

\* ------------------------------------------------------------------------
\* route finding where several routes have the same number of edges
\* ------------------------------------------------------------------------

MaxTieRoads == 4

\* three routes of two edges from (80,80) to (92,96): over (92,80), over
\* (86,88) and over (80,96)
TieRoads ==
  { Road(Pt(80, 80), Pt(92, 80)), Road(Pt(92, 80), Pt(92, 96)),
    Road(Pt(80, 80), Pt(86, 88)), Road(Pt(86, 88), Pt(92, 96)),
    Road(Pt(80, 80), Pt(80, 96)), Road(Pt(80, 96), Pt(92, 96)) }

\* the lists of up to MaxTieRoads different roads, in every order
TieRoadLists ==
  { rds \in UNION { [1 .. k -> TieRoads] : k \in 0 .. MaxTieRoads } :
      \A i, j \in 1 .. Len(rds) : rds[i] = rds[j] => i = j }

InitTie ==
  /\ impl \in Revisions
  /\ canvas = [width |-> 172, height |-> 176]
  /\ roads \in TieRoadLists
  /\ car = [x |-> FromInt(start.x), y |-> FromInt(start.y), path |-> NoPath,
            segIndex |-> 0, progress |-> FromInt(0)]
  /\ score = 0
  /\ isDrawing = FALSE
  /\ drawStart = Pt(0, 0)
  /\ mousePos = Pt(0, 0)
  /\ looping = TRUE
  /\ tripTicks = 0

TieSpec == InitTie /\ [][NextGraph]_vars

\* ------------------------------------------------------------------------
\* properties
\* ------------------------------------------------------------------------

\* the path a tick would compute now
FreshPath == findPath(buildGraph(roads, dest, impl))

\* origin and destination anchors within the snap threshold of each other
AnchorsSnap == HypotLess(dest.x - start.x, dest.y - start.y, SNAP_THRESHOLD)

\* path[i] + (path[i+1] - path[i]) * p for the car's stored i and p
OnSegmentX(c) ==
  Interpolate(c.path[c.segIndex + 1].x,
              c.path[c.segIndex + 2].x - c.path[c.segIndex + 1].x, c.progress)
OnSegmentY(c) ==
  Interpolate(c.path[c.segIndex + 1].y,
              c.path[c.segIndex + 2].y - c.path[c.segIndex + 1].y, c.progress)

\* C1: in every state in which the loop runs and the path a tick computes has
\* at least two nodes, the segment index the tick reads with (after the
\* guard of updateCar, where there is one) satisfies
\* segIndex + 1 <= path.length - 1, so path[segIndex + 1] exists.
C1_ReadInBounds ==
  LET c == CarAtRead(car, roads, dest, impl)
  IN  (looping /\ Len(c.path) >= 2) => c.segIndex + 1 <= Len(c.path) - 1

C3_PositionInterpolated ==
  [][(looping' /\ Len(car'.path) > 1 /\ score' = score /\ Tick)
       => /\ car'.segIndex + 2 <= Len(car'.path)
          /\ car'.x = OnSegmentX(car')
          /\ car'.y = OnSegmentY(car')]_vars

\* ceil(a / b) for integers a >= 0, b > 0
CeilDiv(a, b) == (a + b - 1) \div b

\* the road collection is one road whose endpoints snap to the two anchors
SingleRoad == Len(roads) = 1 /\ Len(FreshPath) = 2

\* C4: with a single road joining the anchors (a two-node path of length L)
\* the car that has moved for k ticks since it stood at the origin has
\* k < ceil(L / speed) and stands at origin + (destination - origin) * (k *
\* speed / L); it arrives on tick ceil(L / speed), not before and not after.
C4_TicksToArrival ==
  /\ [](SingleRoad =>
          LET dx == FreshPath[2].x - FreshPath[1].x
              dy == FreshPath[2].y - FreshPath[1].y
              L  == Hypot(dx, dy)
              f  == FDiv(tripTicks * speed, L)
          IN  /\ tripTicks < CeilDiv(L, speed)
              /\ car.x = Interpolate(start.x, dx, f)
              /\ car.y = Interpolate(start.y, dy, f))
  /\ [][(score' = score + 1 /\ SingleRoad) =>
          tripTicks + 1 = CeilDiv(Hypot(FreshPath[2].x - FreshPath[1].x,
                                        FreshPath[2].y - FreshPath[1].y), speed)]_vars

\* the step leaves everything the mouse handlers write unchanged
MouseStateUnchanged ==
  UNCHANGED << roads, isDrawing, drawStart, mousePos >>

\* the car stands on the last segment of the path a tick reads, and adding
\* speed / segLength carries its progress to 1 or beyond
CompletesLastSegment ==
  LET c == CarAtRead(car, roads, dest, impl)
  IN  /\ Len(c.path) > 1
      /\ c.segIndex + 2 = Len(c.path)
      /\ FGeOne(FAdd(c.progress,
                     FDiv(speed, Hypot(c.path[c.segIndex + 2].x - c.path[c.segIndex + 1].x,
                                       c.path[c.segIndex + 2].y - c.path[c.segIndex + 1].y))))

AtOriginReset(c) ==
  /\ c.x = FromInt(start.x) /\ c.y = FromInt(start.y)
  /\ c.segIndex = 0 /\ c.progress = FromInt(0)

\* C5: in every step the score stays or grows by one; it grows exactly in
\* the ticks in which the car completes the last segment of its path, and
\* such a tick leaves the car at the origin with segment index 0 and
\* progress 0.
C5_ScoreCountsArrivals ==
  [][/\ score' = score \/ score' = score + 1
     /\ score' = score + 1 =>
          (MouseStateUnchanged /\ CompletesLastSegment /\ AtOriginReset(car'))
     /\ (car' # car /\ MouseStateUnchanged /\ CompletesLastSegment) =>
          score' = score + 1]_vars

\* the car has arrived twice and stands reset at the origin
C5_Witness == score >= 2 /\ AtOriginReset(car) /\ tripTicks = 0

\* the ids one edge away from a set of ids
Successors(graph, ids) ==
  UNION {{graph.adj[n][i].id : i \in 1 .. Len(graph.adj[n])} :
           n \in ids \cap DOMAIN graph.adj}

\* the ids reachable from the start node over the adjacency mapping
RECURSIVE ReachableFrom(_, _)
ReachableFrom(graph, seen) ==
  IF Successors(graph, seen) \subseteq seen THEN seen
  ELSE ReachableFrom(graph, seen \cup Successors(graph, seen))

Connected(graph) ==
  graph.destNode.id \in ReachableFrom(graph, {graph.startNode.id})

\* C6: while the roads do not connect the origin node to the destination
\* node findPath returns null, and a tick that stores no path, or a path of
\* fewer than two nodes, changes neither the score nor the position.
C6_NoRouteHolds ==
  /\ [](~Connected(buildGraph(roads, dest, impl)) => FreshPath = NoPath)
  /\ [][(MouseStateUnchanged /\ Len(car'.path) < 2)
          => (score' = score /\ car'.x = car.x /\ car'.y = car.y)]_vars

\* two or more roads are drawn, none of them joins the anchors, and the car
\* stands at the origin with no path and no score
C6_Witness ==
  /\ Len(roads) >= 2
  /\ ~Connected(buildGraph(roads, dest, impl))
  /\ car.path = NoPath /\ score = 0 /\ AtOriginReset(car)

\* C7: a pointer-up that ends a gesture either appends exactly one road, from
\* the down coordinate to an up coordinate more than 5 away, at the end of
\* the collection, or leaves the collection as it is, and then some up
\* coordinate at most 5 away exists; the gesture is over either way.
C7_PointerUp ==
  [][(isDrawing /\ ~isDrawing') =>
       /\ \/ roads' = roads
          \/ \E e \in UpPoints :
               /\ SumSq(e.x - drawStart.x, e.y - drawStart.y) > 25
               /\ roads' = roads \o << [x1 |-> drawStart.x, y1 |-> drawStart.y,
                                        x2 |-> e.x, y2 |-> e.y] >>
       /\ roads' = roads =>
            \E e \in UpPoints : SumSq(e.x - drawStart.x, e.y - drawStart.y) <= 25]_vars

\* a gesture has ended with a road appended (from (92,80) after (80,80))
C7_Witness ==
  /\ ~isDrawing /\ Len(roads) >= 1
  /\ roads[Len(roads)].x1 = drawStart.x /\ roads[Len(roads)].y1 = drawStart.y

\* the graph built from the current roads
Graph == buildGraph(roads, dest, impl)

\* the least number of edges of a walk from the frontier (d edges from the
\* start) to the destination, or -1 when there is none
RECURSIVE HopsFrom(_, _, _, _)
HopsFrom(graph, frontier, seen, d) ==
  IF graph.destNode.id \in frontier THEN d
  ELSE LET next == Successors(graph, frontier) \ seen
       IN  IF next = {} THEN -1
           ELSE HopsFrom(graph, next, seen \cup next, d + 1)

MinHops(graph) == HopsFrom(graph, {graph.startNode.id}, {graph.startNode.id}, 0)

\* C8: a path returned by findPath has the least number of edges of all
\* walks from the origin node to the destination node in the graph.
C8_MinimumHops ==
  LET g == Graph
      path == findPath(g)
  IN  path # NoPath => Len(path) - 1 = MinHops(g)

\* findPath has stored a two-edge route where the roads through (80,96) and
\* (86,88) make a three-edge route as well
C8_Witness ==
  /\ Len(car.path) = 3 /\ car.path = FreshPath
  /\ { Road(Pt(80, 80), Pt(80, 96)), Road(Pt(80, 96), Pt(86, 88)),
       Road(Pt(86, 88), Pt(92, 96)) } \subseteq { roads[i] : i \in 1 .. Len(roads) }

\* C9: findPath returns null exactly when the destination node cannot be
\* reached from the origin node; otherwise its result starts at the origin
\* node, ends at the destination node, joins consecutive nodes by an edge
\* of the adjacency mapping and holds no node twice.
C9_PathContract ==
  LET g == Graph
      path == findPath(g)
  IN  /\ path = NoPath <=> ~Connected(g)
      /\ path # NoPath =>
           /\ path[1] = g.startNode
           /\ path[Len(path)] = g.destNode
           /\ \A i \in 1 .. Len(path) - 1 :
                /\ path[i].id \in DOMAIN g.adj
                /\ \E j \in 1 .. Len(g.adj[path[i].id]) :
                     g.adj[path[i].id][j].id = path[i + 1].id
           /\ \A i, j \in 1 .. Len(path) : path[i] = path[j] => i = j

\* findPath has stored a route of three edges
C9_Witness == Len(car.path) = 4 /\ car.path = FreshPath

\* C10: the graph has at most 2 * (number of roads) + 2 nodes.
C10_NodeCount == Len(Graph.nodes) <= 2 * Len(roads) + 2

\* the bound is met: both ends of a single road made a node of their own
\* beside the two anchors
C10_Witness == Len(roads) = 1 /\ Len(Graph.nodes) = 4

\* the number of entries of a list equal to e
Count(list, e) == Cardinality({i \in 1 .. Len(list) : list[i] = e})

\* the entries of all adjacency lists
AllEntries(graph) ==
  UNION {{graph.adj[n][i] : i \in 1 .. Len(graph.adj[n])} : n \in DOMAIN graph.adj}

\* C11: for all nodes A and B and every distance d, A's adjacency list holds
\* the entry (B, d) as many times as B's list holds the entry (A, d).
C11_AdjacencySymmetric ==
  LET g == Graph
      ids == {g.nodes[i].id : i \in 1 .. Len(g.nodes)}
      dists == {e.dist : e \in AllEntries(g)}
  IN  \A a, b \in ids : \A d \in dists :
        Count(neighbors(g, a), [id |-> b, dist |-> d])
          = Count(neighbors(g, b), [id |-> a, dist |-> d])

\* the start node has a loop of distance 0 (a road with both ends snapped to
\* it) and two edges to the node at (92,80) (two roads between them)
C11_Witness ==
  LET g == Graph
  IN  /\ Count(neighbors(g, g.startNode.id), [id |-> g.startNode.id, dist |-> 0]) = 2
      /\ \E i \in 1 .. Len(g.nodes) :
           /\ g.nodes[i].x = 92 /\ g.nodes[i].y = 80
           /\ Count(neighbors(g, g.startNode.id), [id |-> g.nodes[i].id, dist |-> 12]) = 2
           /\ Count(neighbors(g, g.nodes[i].id), [id |-> g.startNode.id, dist |-> 12]) = 2

\* C12: every node of the node list has an entry in the adjacency mapping.
C12_EveryNodeHasEntry ==
  LET g == Graph
  IN  \A i \in 1 .. Len(g.nodes) : g.nodes[i].id \in DOMAIN g.adj

\* the road from (80,80) to (87,80): both ends snap to the start node
LoopRoad == Road(Pt(80, 80), Pt(87, 80))

ProbePoints == { Pt(92, 80), Pt(83, 84), Pt(86, 88), Pt(80, 96), Pt(104, 96) }

\* getOrCreateNode twice in a row with position p against the node list of g
TwiceAt(p, g) ==
  LET first == getOrCreateNode(p.x, p.y, g, impl)
  IN  [first |-> first, second |-> getOrCreateNode(p.x, p.y, first.g, impl)]

\* C14: two calls of getOrCreateNode in a row with the same position return
\* the same node id, and the second leaves the node list unchanged.
C14_MergeIdempotent ==
  LET g == [nodes |-> Graph.nodes, adj |-> Graph.adj]
  IN  \A p \in ProbePoints :
        /\ TwiceAt(p, g).second.node.id = TwiceAt(p, g).first.node.id
        /\ TwiceAt(p, g).second.g.nodes = TwiceAt(p, g).first.g.nodes

\* against a list of four nodes the first call at (86,88) makes a node and
\* the first call at (83,84) finds the start node
C14_Witness ==
  LET g == [nodes |-> Graph.nodes, adj |-> Graph.adj]
  IN  /\ Len(g.nodes) = 4
      /\ Len(TwiceAt(Pt(86, 88), g).first.g.nodes) = 5
      /\ TwiceAt(Pt(83, 84), g).first.node = Graph.startNode
      /\ TwiceAt(Pt(83, 84), g).first.g.nodes = g.nodes

\* The nodes in the order a first-in first-out expansion finds them: order
\* is the sequence found so far, parent maps each to the node it was found
\* from, and the k-th of the sequence is expanded next, its neighbors taken
\* in the order of its adjacency list.
RECURSIVE Discover(_, _, _, _)
Discover(graph, order, parent, k) ==
  IF k > Len(order) THEN parent
  ELSE LET u == order[k]
           nb == neighbors(graph, u)
           idxs == {i \in 1 .. Len(nb) :
                      /\ nb[i].id \notin DOMAIN parent
                      /\ \A j \in 1 .. i - 1 : nb[j].id # nb[i].id}
           found == [n \in 1 .. Cardinality(idxs) |->
                      nb[CHOOSE i \in idxs : Cardinality({j \in idxs : j < i}) = n - 1].id]
           parent2 == [x \in DOMAIN parent \cup {found[n] : n \in DOMAIN found} |->
                         IF x \in DOMAIN parent THEN parent[x] ELSE u]
       IN  Discover(graph, order \o found, parent2, k + 1)

\* the nodes from the start to id along parent
RECURSIVE Chain(_, _, _)
Chain(nodes, parent, id) ==
  IF id = NullId THEN << >>
  ELSE Append(Chain(nodes, parent, parent[id]), nodes[id + 1])

\* the route to the destination found first, or no path
FirstFound(graph) ==
  LET parent == Discover(graph, << graph.startNode.id >>,
                         (graph.startNode.id :> NullId), 1)
  IN  IF graph.destNode.id \in DOMAIN parent
      THEN Chain(graph.nodes, parent, graph.destNode.id)
      ELSE NoPath

\* C15: the node sequence found for a list of roads is a function of the
\* list: the sequence stored by one run is the sequence a second run over
\* the same list returns, and it is the route found first when nodes are
\* expanded first-in first-out and neighbors taken in insertion order.
C15_SameRoadsSamePath ==
  LET path == findPath(Graph)
  IN  /\ car.path # NoPath => car.path = path
      /\ path = FirstFound(Graph)

\* of two routes of two edges the one over (86,88) is stored, its first
\* road having been drawn before the first road of the route over (92,80)
C15_Witness ==
  /\ roads = << Road(Pt(80, 80), Pt(86, 88)), Road(Pt(80, 80), Pt(92, 80)),
                Road(Pt(92, 80), Pt(92, 96)), Road(Pt(86, 88), Pt(92, 96)) >>
  /\ Len(car.path) = 3 /\ car.path[2].x = 86 /\ car.path[2].y = 88

\* C16: between ticks the car's progress is at least 0 and less than 1.
C16_ProgressInUnitInterval ==
  /\ \A i \in 1 .. 4 : car.progress[i] >= 0
  /\ BigLess(car.progress, FromInt(1))

\* ten ticks along the road of length 20 have brought progress above 0.9
C16_Witness ==
  /\ tripTicks = 10 /\ car.segIndex = 0 /\ Len(car.path) = 2
  /\ BigLess(FDiv(9, 10), car.progress)

IsPrefix(a, b) == Len(a) <= Len(b) /\ SubSeq(b, 1, Len(a)) = a

\* C17: every step leaves the road collection as it is or appends one road
\* to it, a tick leaves it as it is, and a pointer down, move or up changes
\* neither the score nor the car's position, segment index and progress.
C17_RoadsAppendOnly ==
  [][/\ IsPrefix(roads, roads') /\ Len(roads') <= Len(roads) + 1
     /\ roads' # roads => ~Tick
     /\ (car' # car \/ score' # score) => ~(MouseDown \/ MouseMove \/ MouseUp)]_vars

\* the car is under way on its second trip, three roads are drawn and a
\* gesture is going on
C17_Witness ==
  /\ Len(roads) = 3 /\ score = 1 /\ tripTicks > 0 /\ isDrawing
  /\ mousePos = Pt(92, 96)

\* C18: two different nodes of the graph are at least SNAP_THRESHOLD apart,
\* and so are consecutive nodes of the path findPath returns.
C18_NodesApart ==
  LET g == Graph
      path == findPath(g)
      T2 == SNAP_THRESHOLD * SNAP_THRESHOLD
  IN  /\ \A i, j \in 1 .. Len(g.nodes) :
           i # j => SumSq(g.nodes[i].x - g.nodes[j].x, g.nodes[i].y - g.nodes[j].y) >= T2
      /\ \A i \in 1 .. Len(path) - 1 :
           SumSq(path[i + 1].x - path[i].x, path[i + 1].y - path[i].y) >= T2

\* the stored path has a segment of length exactly 10, from (80,96) to
\* (86,88), and the start node has a loop edge of distance 0
C18_Witness ==
  /\ Len(car.path) = 4 /\ car.path = FreshPath
  /\ car.path[2].x = 80 /\ car.path[2].y = 96
  /\ car.path[3].x = 86 /\ car.path[3].y = 88
  /\ Count(neighbors(Graph, Graph.startNode.id),
           [id |-> Graph.startNode.id, dist |-> 0]) = 2

\* C19: once a path is found one is found ever after, and its number of
\* edges never grows: this holds from step to step both for the path the
\* last tick stored and for the path a tick would compute.
C19_PathMonotone ==
  [][/\ car.path # NoPath =>
          (car'.path # NoPath /\ Len(car'.path) <= Len(car.path))
     /\ (roads' # roads /\ FreshPath # NoPath) =>
          \E later \in {findPath(buildGraph(roads', dest, impl))} :
            later # NoPath /\ Len(later) <= Len(FreshPath)]_vars

\* one tick on the two-edge route over (92,80) and, the direct road having
\* been added, one tick on the one-edge route: progress is 2/12 + 2/20
C19_Witness ==
  /\ roads = << Road(Pt(80, 80), Pt(92, 80)), Road(Pt(92, 80), Pt(92, 96)),
                Road(Pt(80, 80), Pt(92, 96)) >>
  /\ Len(car.path) = 2 /\ tripTicks = 2
  /\ car.progress = FAdd(FDiv(2, 12), FDiv(2, 20))

\* C20: whenever the roads give a path of two or more nodes, the car holds
\* a path from an earlier tick and no road can be added any more, the score
\* grows beyond its present value (for every value below the cap at which
\* ticks stop), whatever segment index and progress the car has stored.
C20_ArrivesAgain ==
  \A n \in 0 .. MaxScore - 1 :
    (Len(FreshPath) >= 2 /\ Len(car.path) >= 2 /\ Len(roads) = MaxRoads /\ score = n)
      ~> (score > n)

====
